---- MODULE Spec2Model ----
(***************************************************************************)
(* Model of the bitburst_server pipeline (server/service/service.go):      *)
(* callback ingress, status fetcher, upserter, expiration manager with its *)
(* per-identifier timers and firing tasks, deleter, cold-start reconciler. *)
(* Time is a discrete clock; one tick stands for one second.               *)
(***************************************************************************)
EXTENDS Integers, Sequences, FiniteSets, Bags, TLC

(* ------------------------------ bounds --------------------------------- *)
MaxId == 2
MaxColdId == 1
MaxEvents == 2
MaxPayload == 2
MaxTime == 5
MaxObjectsPerRequest == 2
RetentionPolicySec == 2
MaxFlowEvents == 3

Ids == 1..MaxId
ColdIds == 1..MaxColdId
\* the keys the registry can hold: the identifiers, and the zero value a
\* receive on a closed queue yields
Keys == 0..MaxId
BootTime == RetentionPolicySec + 1
NULL == 0 - 1
Absent == 0 - 2

VARIABLES
  now,          \* wall clock, time.Now()
  storage,      \* table objects: id -> last_seen_at, NULL, or Absent
  inputCh, upsertCh, expirationCh, deleteCh,
  byID,         \* s.timers.byID: id -> generation of its timer, 0 when no entry
  timers,       \* the time.Timer objects alive, keyed by <<id, generation>>
  mu,           \* s.timers.mu: who holds it
  gen,          \* per id, the number of timers created so far
  mgr,          \* the expiration manager: pc and the record it took
  cold,         \* the cold-start reconciler
  cbTasks, fetchTasks, upsertTasks, deleteTasks, fireTasks,
  budget,       \* identifiers the callbacks may still bring (MaxEvents less the rows at boot)
  obs,          \* per id, the latest tester observation (history)
  resp,         \* the HTTP response of the callback being answered, NoResp when none
  proc,         \* the process: "up", or how it ended
  ctx,          \* the context handed to Run: "live" or "done"
  closed,       \* the queues close() has closed
  sup,          \* the supervisor: close statements executed in the current close()
  workers       \* the long-lived workers still in their loops

shut == <<ctx, closed, sup, workers>>
vars == <<now, storage, inputCh, upsertCh, expirationCh, deleteCh, byID, timers,
          mu, gen, mgr, cold, cbTasks, fetchTasks, upsertTasks, deleteTasks,
          fireTasks, budget, obs, resp, resp, proc, shut>>

(* ------------------------------ helpers -------------------------------- *)
Object(i, t, on) == [id |-> i, lastSeenAt |-> t, online |-> on]
ZeroObject == Object(0, NULL, FALSE)
Free == [who |-> "free", id |-> 0, born |-> 0]
MgrHolds == [who |-> "mgr", id |-> 0, born |-> 0]
FireHolds(f) == [who |-> "fire", id |-> f.id, born |-> f.born]
NoObs == [kind |-> "none", at |-> NULL, chain |-> TRUE, timer |-> 0,
          same |-> TRUE, n |-> 0]
NoResp == [code |-> 0, body |-> <<>>]
AllWorkers == {"fetcher", "upserter", "manager", "deleter"}
Up == proc = "up"
\* the ways the process ends
SendOnClosed == "panic: send on closed channel"
CloseOfClosed == "panic: close of closed channel"
NilTimer == "panic: nil pointer dereference"
MapRace == "fatal error: concurrent map read and map write"
Exited == "exit"

\* faulty variant: one element more than the capacity is let in
HasRoomOver(ch) == Len(ch) <= MaxObjectsPerRequest

\* a send on a buffered channel goes through while the buffer is not full
HasRoom(ch) == Len(ch) < MaxObjectsPerRequest
Put(b, x) == b (+) SetToBag({x})
Take(b, x) == b (-) SetToBag({x})
Retention == RetentionPolicySec

\* The timer objects still referenced: by the registry, or by a firing task
\* that has looked its timer up and will still receive from its channel.
Referenced(reg, fts) ==
  {<<i, reg[i]>> : i \in {j \in Keys : reg[j] # 0}}
     \cup {<<f.id, f.h>> : f \in {g \in fts : g.pc = "wait"}}
Collect(tms, reg, fts) ==
  [h \in (DOMAIN tms) \cap Referenced(reg, fts) |-> tms[h]]

\* time.NewTimer(d) / Reset(d): armed, fires d from now
Armed(d) == [active |-> TRUE, deadline |-> now + d, c |-> 0]

(* ------------------------------- Init ---------------------------------- *)
InitStamps == {NULL, 0, BootTime - Retention, BootTime - 1}

Init ==
  /\ now = BootTime
  /\ storage \in [Ids -> InitStamps \cup {Absent}]
  /\ \A i \in Ids \ ColdIds : storage[i] = Absent
  /\ inputCh = <<>> /\ upsertCh = <<>> /\ expirationCh = <<>> /\ deleteCh = <<>>
  /\ byID = [i \in Keys |-> 0]
  /\ timers = [h \in {} |-> 0]
  /\ mu = Free
  /\ gen = [i \in Keys |-> 0]
  /\ mgr = [pc |-> "idle", obj |-> ZeroObject]
  /\ cold = [pc |-> "scan", objs |-> <<>>, scanned |-> <<>>, routed |-> <<>>,
             err |-> FALSE]
  /\ cbTasks = EmptyBag /\ fetchTasks = EmptyBag
  /\ upsertTasks = EmptyBag /\ deleteTasks = EmptyBag
  /\ fireTasks = {}
  /\ budget = MaxEvents - Cardinality({i \in Ids : storage[i] # Absent})
  /\ obs = [i \in Ids |-> NoObs]
  /\ resp = NoResp
  /\ proc = "up"
  /\ ctx = "live" /\ closed = {} /\ sup = 0 /\ workers = AllWorkers

(* --------------------------- callback ingress -------------------------- *)
Payloads == UNION {[1..n -> Ids] : n \in 1..MaxPayload}

\* A request body: the identifiers the decoder puts into input.ObjectIDs,
\* and whether Decode returns without an error. A body that does not decode
\* may have filled some identifiers in before the error.
Malformed == UNION {[1..n -> {1}] : n \in 0..1}
Bodies == {[ids |-> p, ok |-> TRUE] : p \in Payloads}
            \cup {[ids |-> p, ok |-> FALSE] : p \in Malformed}

\* err := dec.Decode(&input)
Decode(b) == [input |-> b.ids, err |-> ~b.ok]

\* what a request takes from the budget of events
Cost(b) == IF b.ids = <<>> THEN 1 ELSE Len(b.ids)

\* faulty variant: the identifiers decoded before the error are pushed
CallbackLenient(b) ==
  /\ resp = NoResp
  /\ Cost(b) <= budget
  /\ budget' = budget - Cost(b)
  /\ LET d == Decode(b)
     IN /\ cbTasks' = IF d.input = <<>> THEN cbTasks ELSE Put(cbTasks, d.input)
        /\ resp' = [code |-> IF d.err THEN 400 ELSE 200, body |-> b]
  /\ UNCHANGED <<now, storage, inputCh, upsertCh, expirationCh, deleteCh, byID,
                 timers, mu, gen, mgr, cold, fetchTasks, upsertTasks,
                 deleteTasks, fireTasks, obs, proc, shut>>

\* POST /callback: on a decode error 400 and nothing else; otherwise a
\* background task that pushes the identifiers one by one, and 200
Callback(b) ==
  /\ resp = NoResp
  /\ Cost(b) <= budget
  /\ budget' = budget - Cost(b)
  /\ LET d == Decode(b)
     IN IF d.err
        THEN /\ resp' = [code |-> 400, body |-> b]
             /\ UNCHANGED cbTasks
        ELSE /\ cbTasks' = Put(cbTasks, d.input)
             /\ resp' = [code |-> 200, body |-> b]
  /\ UNCHANGED <<now, storage, inputCh, upsertCh, expirationCh, deleteCh, byID,
                 timers, mu, gen, mgr, cold, fetchTasks, upsertTasks,
                 deleteTasks, fireTasks, obs, proc, shut>>

\* the response reaches the caller
Respond ==
  /\ resp # NoResp
  /\ resp' = NoResp
  /\ UNCHANGED <<now, storage, inputCh, upsertCh, expirationCh, deleteCh, byID,
                 timers, mu, gen, mgr, cold, cbTasks, fetchTasks, upsertTasks,
                 deleteTasks, fireTasks, budget, obs, proc, shut>>

\* s.inputCh <- input.ObjectIDs[i]; blocks while the queue is full, panics
\* when the queue is closed
CallbackPush(p) ==
  /\ p \in BagToSet(cbTasks)
  /\ IF "inputCh" \in closed
     THEN /\ proc' = SendOnClosed
          /\ UNCHANGED <<inputCh, cbTasks>>
     ELSE /\ HasRoom(inputCh)
          /\ inputCh' = Append(inputCh, Head(p))
          /\ cbTasks' = IF Len(p) = 1 THEN Take(cbTasks, p)
                        ELSE Put(Take(cbTasks, p), Tail(p))
          /\ UNCHANGED proc
  /\ UNCHANGED <<now, storage, upsertCh, expirationCh, deleteCh, byID, timers,
                 mu, gen, mgr, cold, fetchTasks, upsertTasks, deleteTasks,
                 fireTasks, budget, obs, resp, shut>>

(* ---------------------------- status fetcher --------------------------- *)
\* seen (the clock at the decode), closeErr (resp.Body.Close() returned an
\* error) and sent (what the task has enqueued, in order) are history fields
FetchTask(i) ==
  [id |-> i, pc |-> "req", info |-> ZeroObject, seen |-> NULL,
   closeErr |-> FALSE, sent |-> <<>>]

\* case id := <-s.inputCh: go func(ctx, id)
\* a closed and empty queue yields the zero value; a task started after the
\* cancellation fails at httpClient.Do and returns
RetrieveObjects ==
  /\ "fetcher" \in workers
  /\ inputCh # <<>> \/ "inputCh" \in closed
  /\ inputCh' = IF inputCh # <<>> THEN Tail(inputCh) ELSE inputCh
  /\ LET id == IF inputCh # <<>> THEN Head(inputCh) ELSE 0
     IN fetchTasks' = Put(fetchTasks,
                          IF ctx = "live" THEN FetchTask(id)
                          ELSE [FetchTask(0) EXCEPT !.pc = "ret"])
  /\ UNCHANGED <<now, storage, upsertCh, expirationCh, deleteCh, byID, timers,
                 mu, gen, mgr, cold, cbTasks, upsertTasks, deleteTasks,
                 fireTasks, budget, obs, resp, proc, shut>>

\* request construction, transport, or decode failure: logged, task returns
FetchFail(t) ==
  /\ t \in BagToSet(fetchTasks) /\ t.pc = "req"
  /\ fetchTasks' = Put(Take(fetchTasks, t), [t EXCEPT !.id = 0, !.pc = "ret"])
  /\ UNCHANGED <<now, storage, inputCh, upsertCh, expirationCh, deleteCh, byID,
                 timers, mu, gen, mgr, cold, cbTasks, upsertTasks, deleteTasks,
                 fireTasks, budget, obs, resp, proc, shut>>

\* faulty variant: the record keeps the last_seen_at of the tester's body
StampKept(info) == info

\* if info.Online { now := time.Now().UTC(); info.LastSeenAt = &now }
Stamp(info) == IF info.online THEN [info EXCEPT !.lastSeenAt = now] ELSE info

\* obs (history): the kind and clock of the latest observation of an id,
\* whether every observation so far was online and less than a retention
\* after the one before, the timer the registry held for the id then,
\* whether the tester has given the same answer every time, and the number
\* of observations
Observe(o, i, on) ==
  [kind |-> IF on THEN "online" ELSE "offline",
   at |-> now,
   chain |-> on /\ o.chain /\ (o.kind = "none" \/ now - o.at < Retention),
   timer |-> byID[i],
   same |-> o.same /\ (o.kind = "none" \/ (o.kind = "online") = on),
   n |-> o.n + 1]

\* the tester's answer decodes to a record with identifier rid (the body's id
\* is authoritative) and flag on; an error of resp.Body.Close() (ce) is
\* logged and the task goes on
FetchDecode(t, rid, on, ce) ==
  /\ t \in BagToSet(fetchTasks) /\ t.pc = "req"
  /\ LET info == Stamp(Object(rid, NULL, on))
     IN fetchTasks' = Put(Take(fetchTasks, t),
                          [t EXCEPT !.id = 0, !.info = info, !.seen = now,
                                    !.closeErr = ce,
                                    !.pc = IF info.online THEN "upsert" ELSE "delete"])
  /\ obs' = [obs EXCEPT ![rid] = Observe(@, rid, on)]
  /\ UNCHANGED <<now, storage, inputCh, upsertCh, expirationCh, deleteCh, byID,
                 timers, mu, gen, mgr, cold, cbTasks, upsertTasks, deleteTasks,
                 fireTasks, budget, resp, proc, shut>>

Sent(t, q, x) == [t EXCEPT !.sent = Append(@, <<q, x>>)]
DeleteMsg(i, src, g) == [id |-> i, src |-> src, gen |-> g]

\* s.upsertCh <- info
FetchSendUpsert(t) ==
  /\ t \in BagToSet(fetchTasks) /\ t.pc = "upsert"
  /\ IF "upsertCh" \in closed
     THEN /\ proc' = SendOnClosed
          /\ UNCHANGED <<upsertCh, fetchTasks>>
     ELSE /\ HasRoom(upsertCh)
          /\ upsertCh' = Append(upsertCh, t.info)
          /\ fetchTasks' = Put(Take(fetchTasks, t),
                               [Sent(t, "upsert", upsertCh'[Len(upsertCh')])
                                  EXCEPT !.pc = "expiration"])
          /\ UNCHANGED proc
  /\ UNCHANGED <<now, storage, inputCh, expirationCh, deleteCh, byID, timers,
                 mu, gen, mgr, cold, cbTasks, upsertTasks, deleteTasks,
                 fireTasks, budget, obs, resp, shut>>

\* s.expirationCh <- info
FetchSendExpiration(t) ==
  /\ t \in BagToSet(fetchTasks) /\ t.pc = "expiration"
  /\ IF "expirationCh" \in closed
     THEN /\ proc' = SendOnClosed
          /\ UNCHANGED <<expirationCh, fetchTasks>>
     ELSE /\ HasRoom(expirationCh)
          /\ expirationCh' = Append(expirationCh, t.info)
          /\ fetchTasks' = Put(Take(fetchTasks, t),
                               [Sent(t, "expiration", expirationCh'[Len(expirationCh')])
                                  EXCEPT !.pc = "ret"])
          /\ UNCHANGED proc
  /\ UNCHANGED <<now, storage, inputCh, upsertCh, deleteCh, byID, timers, mu,
                 gen, mgr, cold, cbTasks, upsertTasks, deleteTasks, fireTasks,
                 budget, obs, resp, shut>>

\* s.deleteCh <- info.ID
FetchSendDelete(t) ==
  /\ t \in BagToSet(fetchTasks) /\ t.pc = "delete"
  /\ IF "deleteCh" \in closed
     THEN /\ proc' = SendOnClosed
          /\ UNCHANGED <<deleteCh, fetchTasks>>
     ELSE /\ HasRoom(deleteCh)
          /\ deleteCh' = Append(deleteCh, DeleteMsg(t.info.id, "offline", 0))
          /\ fetchTasks' = Put(Take(fetchTasks, t),
                               [Sent(t, "delete", deleteCh'[Len(deleteCh')].id)
                                  EXCEPT !.pc = "ret"])
          /\ UNCHANGED proc
  /\ UNCHANGED <<now, storage, inputCh, upsertCh, expirationCh, byID, timers,
                 mu, gen, mgr, cold, cbTasks, upsertTasks, deleteTasks,
                 fireTasks, budget, obs, resp, shut>>

\* the per-identifier task returns
FetchReturn(t) ==
  /\ t \in BagToSet(fetchTasks) /\ t.pc = "ret"
  /\ fetchTasks' = Take(fetchTasks, t)
  /\ UNCHANGED <<now, storage, inputCh, upsertCh, expirationCh, deleteCh, byID,
                 timers, mu, gen, mgr, cold, cbTasks, upsertTasks, deleteTasks,
                 fireTasks, budget, obs, resp, proc, shut>>

(* ------------------------- upserter and deleter ------------------------ *)
\* case obj := <-s.upsertCh: go func(ctx, obj); a closed and empty queue
\* yields the zero value; the Exec of a task started after the cancellation
\* fails, so the task changes nothing
HandleUpsert ==
  /\ "upserter" \in workers
  /\ upsertCh # <<>> \/ "upsertCh" \in closed
  /\ upsertCh' = IF upsertCh # <<>> THEN Tail(upsertCh) ELSE upsertCh
  /\ upsertTasks' = IF ctx = "live" THEN Put(upsertTasks, Head(upsertCh))
                    ELSE upsertTasks
  /\ UNCHANGED <<now, storage, inputCh, expirationCh, deleteCh, byID, timers,
                 mu, gen, mgr, cold, cbTasks, fetchTasks, deleteTasks,
                 fireTasks, budget, obs, resp, proc, shut>>

\* INSERT ... ON CONFLICT (id) DO UPDATE SET last_seen_at = $2
UpsertObject(st, obj) == [st EXCEPT ![obj.id] = obj.lastSeenAt]

\* s.database.UpsertObject(ctx, obj); an error is logged, nothing is retried
UpsertApply(obj, ok) ==
  /\ obj \in BagToSet(upsertTasks)
  /\ upsertTasks' = Take(upsertTasks, obj)
  /\ storage' = IF ok THEN UpsertObject(storage, obj) ELSE storage
  /\ UNCHANGED <<now, inputCh, upsertCh, expirationCh, deleteCh, byID, timers,
                 mu, gen, mgr, cold, cbTasks, fetchTasks, deleteTasks,
                 fireTasks, budget, obs, resp, proc, shut>>

\* case id := <-s.deleteCh: go func(ctx, id); a closed and empty queue
\* yields the zero value; the Exec of a task started after the cancellation
\* fails, so the task changes nothing
HandleDelete ==
  /\ "deleter" \in workers
  /\ deleteCh # <<>> \/ "deleteCh" \in closed
  /\ deleteCh' = IF deleteCh # <<>> THEN Tail(deleteCh) ELSE deleteCh
  /\ deleteTasks' = IF ctx = "live" THEN Put(deleteTasks, Head(deleteCh))
                    ELSE deleteTasks
  /\ UNCHANGED <<now, storage, inputCh, upsertCh, expirationCh, byID, timers,
                 mu, gen, mgr, cold, cbTasks, fetchTasks, upsertTasks,
                 fireTasks, budget, obs, resp, proc, shut>>

\* DELETE FROM objects WHERE id = $1
DeleteObjectByID(st, i) == IF i \in DOMAIN st THEN [st EXCEPT ![i] = Absent] ELSE st

\* s.database.DeleteObjectByID(ctx, id)
DeleteApply(d, ok) ==
  /\ d \in BagToSet(deleteTasks)
  /\ deleteTasks' = Take(deleteTasks, d)
  /\ storage' = IF ok THEN DeleteObjectByID(storage, d.id) ELSE storage
  /\ UNCHANGED <<now, inputCh, upsertCh, expirationCh, deleteCh, byID, timers,
                 mu, gen, mgr, cold, cbTasks, fetchTasks, upsertTasks,
                 fireTasks, budget, obs, resp, proc, shut>>

(* ------------------------- expiration manager -------------------------- *)
\* time.NewTimer for a record with no timer yet: the residual horizon when
\* last_seen_at is present and younger than the retention, else the full one
NewTimerFor(obj) ==
  IF obj.lastSeenAt # NULL /\ now - obj.lastSeenAt < Retention
  THEN Armed(Retention - (now - obj.lastSeenAt))
  ELSE Armed(Retention)

FireTask(i, g) == [id |-> i, born |-> g, h |-> 0, pc |-> "lookup"]

\* case obj := <-s.expirationCh
\* (a closed and empty queue yields the zero record)
MgrReceive ==
  /\ "manager" \in workers
  /\ mgr.pc = "idle"
  /\ expirationCh # <<>> \/ "expirationCh" \in closed
  /\ mgr' = [pc |-> "lock",
             obj |-> IF expirationCh # <<>> THEN Head(expirationCh) ELSE ZeroObject]
  /\ expirationCh' = IF expirationCh # <<>> THEN Tail(expirationCh) ELSE expirationCh
  /\ UNCHANGED <<now, storage, inputCh, upsertCh, deleteCh, byID, timers, mu,
                 gen, cold, cbTasks, fetchTasks, upsertTasks, deleteTasks,
                 fireTasks, budget, obs, resp, proc, shut>>

\* s.timers.mu.Lock()
MgrLock ==
  /\ mgr.pc = "lock" /\ mu = Free
  /\ mu' = MgrHolds
  /\ mgr' = [mgr EXCEPT !.pc = "locked"]
  /\ UNCHANGED <<now, storage, inputCh, upsertCh, expirationCh, deleteCh, byID,
                 timers, gen, cold, cbTasks, fetchTasks, upsertTasks,
                 deleteTasks, fireTasks, budget, obs, resp, proc, shut>>

\* no entry for obj.ID: insert a new timer, unlock, start its firing task
MgrCreate ==
  /\ mgr.pc = "locked" /\ byID[mgr.obj.id] = 0
  /\ LET i == mgr.obj.id
         g == gen[i] + 1
     IN /\ gen' = [gen EXCEPT ![i] = g]
        /\ byID' = [byID EXCEPT ![i] = g]
        /\ timers' = timers @@ (<<i, g>> :> NewTimerFor(mgr.obj))
        /\ fireTasks' = fireTasks \cup {FireTask(i, g)}
  /\ mu' = Free
  /\ mgr' = [pc |-> "idle", obj |-> ZeroObject]
  /\ UNCHANGED <<now, storage, inputCh, upsertCh, expirationCh, deleteCh, cold,
                 cbTasks, fetchTasks, upsertTasks, deleteTasks, budget, obs, resp, proc, shut>>

\* faulty variant: re-insert instead of refresh, a second timer and firing task
MgrReinsert ==
  /\ mgr.pc = "locked" /\ byID[mgr.obj.id] # 0
  /\ LET i == mgr.obj.id
         g == gen[i] + 1
     IN /\ gen' = [gen EXCEPT ![i] = g]
        /\ byID' = [byID EXCEPT ![i] = g]
        /\ timers' = timers @@ (<<i, g>> :> Armed(Retention))
        /\ fireTasks' = fireTasks \cup {FireTask(i, g)}
  /\ mu' = Free
  /\ mgr' = [pc |-> "idle", obj |-> ZeroObject]
  /\ UNCHANGED <<now, storage, inputCh, upsertCh, expirationCh, deleteCh, cold,
                 cbTasks, fetchTasks, upsertTasks, deleteTasks, budget, obs, resp, proc, shut>>

\* faulty variant: a record for an identifier that has a timer is taken for
\* an expiry
MgrRefreshEvict ==
  /\ mgr.pc = "locked" /\ byID[mgr.obj.id] # 0
  /\ HasRoom(deleteCh)
  /\ deleteCh' = Append(deleteCh, DeleteMsg(mgr.obj.id, "offline", 0))
  /\ mu' = Free
  /\ mgr' = [pc |-> "idle", obj |-> ZeroObject]
  /\ UNCHANGED <<now, storage, inputCh, upsertCh, expirationCh, byID, timers,
                 gen, cold, cbTasks, fetchTasks, upsertTasks, deleteTasks,
                 fireTasks, budget, obs, resp, proc, shut>>

\* faulty variant: the refresh re-arms for what is left of the window counted
\* from the record's last_seen_at
MgrRefreshResidual ==
  /\ mgr.pc = "locked" /\ byID[mgr.obj.id] # 0
  /\ LET h == <<mgr.obj.id, byID[mgr.obj.id]>>
     IN IF timers[h].active
        THEN /\ timers' = [timers EXCEPT ![h] = NewTimerFor(mgr.obj)]
             /\ mu' = Free
             /\ mgr' = [pc |-> "idle", obj |-> ZeroObject]
        ELSE /\ mgr' = [mgr EXCEPT !.pc = "drain"]
             /\ UNCHANGED <<timers, mu>>
  /\ UNCHANGED <<now, storage, inputCh, upsertCh, expirationCh, deleteCh, byID,
                 gen, cold, cbTasks, fetchTasks, upsertTasks, deleteTasks,
                 fireTasks, budget, obs, resp, proc, shut>>

\* an entry exists: timer.Stop(); when it reports true, Reset and unlock;
\* when it reports false (the timer has expired) go on to <-timer.C
MgrRefresh ==
  /\ mgr.pc = "locked" /\ byID[mgr.obj.id] # 0
  /\ LET h == <<mgr.obj.id, byID[mgr.obj.id]>>
     IN IF timers[h].active
        THEN /\ timers' = [timers EXCEPT ![h] = Armed(Retention)]
             /\ mu' = Free
             /\ mgr' = [pc |-> "idle", obj |-> ZeroObject]
        ELSE /\ mgr' = [mgr EXCEPT !.pc = "drain"]
             /\ UNCHANGED <<timers, mu>>
  /\ UNCHANGED <<now, storage, inputCh, upsertCh, expirationCh, deleteCh, byID,
                 gen, cold, cbTasks, fetchTasks, upsertTasks, deleteTasks,
                 fireTasks, budget, obs, resp, proc, shut>>

\* <-timer.C with the lock held, then Reset and unlock
MgrDrain ==
  /\ mgr.pc = "drain"
  /\ LET h == <<mgr.obj.id, byID[mgr.obj.id]>>
     IN /\ timers[h].c = 1
        /\ timers' = [timers EXCEPT ![h] = Armed(Retention)]
  /\ mu' = Free
  /\ mgr' = [pc |-> "idle", obj |-> ZeroObject]
  /\ UNCHANGED <<now, storage, inputCh, upsertCh, expirationCh, deleteCh, byID,
                 gen, cold, cbTasks, fetchTasks, upsertTasks, deleteTasks,
                 fireTasks, budget, obs, resp, proc, shut>>

(* ------------------------ timers and firing tasks ---------------------- *)
\* the runtime fires a due timer: a non-blocking send on its 1-buffered C
TimerExpire(h) ==
  /\ h \in DOMAIN timers
  /\ timers[h].active /\ timers[h].deadline <= now
  /\ timers' = [timers EXCEPT ![h] = [active |-> FALSE, deadline |-> 0, c |-> 1]]
  /\ UNCHANGED <<now, storage, inputCh, upsertCh, expirationCh, deleteCh, byID,
                 mu, gen, mgr, cold, cbTasks, fetchTasks, upsertTasks,
                 deleteTasks, fireTasks, budget, obs, resp, proc, shut>>

Moved(f, pc) == [f EXCEPT !.pc = pc]

\* another task holds the lock and is at its write of the map: the manager
\* at its insert (line 157 or 159), a firing task at its delete (line 167)
Racing(f) ==
  \/ mgr.pc = "locked" /\ byID[mgr.obj.id] = 0
  \/ \E g \in fireTasks : g # f /\ g.pc = "del"

\* s.timers.byID[id], read without the lock, before blocking on its C. The
\* read finds the entry, or no entry (the nil timer is dereferenced); when it
\* runs together with a write of the map the runtime may also abort the
\* process.
FireLookup(f) ==
  /\ f \in fireTasks /\ f.pc = "lookup"
  /\ \/ /\ byID[f.id] # 0
        /\ fireTasks' = (fireTasks \ {f}) \cup {[f EXCEPT !.h = byID[f.id], !.pc = "wait"]}
        /\ UNCHANGED proc
     \/ /\ byID[f.id] = 0
        /\ proc' = NilTimer
        /\ UNCHANGED fireTasks
     \/ /\ Racing(f)
        /\ proc' = MapRace
        /\ UNCHANGED fireTasks
  /\ UNCHANGED <<now, storage, inputCh, upsertCh, expirationCh, deleteCh, byID,
                 timers, mu, gen, mgr, cold, cbTasks, fetchTasks, upsertTasks,
                 deleteTasks, budget, obs, resp, shut>>

\* <-s.timers.byID[id].C
FireReceive(f) ==
  /\ f \in fireTasks /\ f.pc = "wait"
  /\ timers[<<f.id, f.h>>].c = 1
  /\ fireTasks' = (fireTasks \ {f}) \cup {Moved(f, "lock")}
  /\ timers' = Collect([timers EXCEPT ![<<f.id, f.h>>].c = 0], byID, fireTasks')
  /\ UNCHANGED <<now, storage, inputCh, upsertCh, expirationCh, deleteCh, byID,
                 mu, gen, mgr, cold, cbTasks, fetchTasks, upsertTasks,
                 deleteTasks, budget, obs, resp, proc, shut>>

\* s.timers.mu.Lock()
FireLock(f) ==
  /\ f \in fireTasks /\ f.pc = "lock"
  /\ mu = Free
  /\ mu' = FireHolds(f)
  /\ fireTasks' = (fireTasks \ {f}) \cup {Moved(f, "del")}
  /\ UNCHANGED <<now, storage, inputCh, upsertCh, expirationCh, deleteCh, byID,
                 timers, gen, mgr, cold, cbTasks, fetchTasks, upsertTasks,
                 deleteTasks, budget, obs, resp, proc, shut>>

\* faulty variant: the entry is left in the registry
FireDeleteSkipped(f) ==
  /\ f \in fireTasks /\ f.pc = "del"
  /\ fireTasks' = (fireTasks \ {f}) \cup {Moved(f, "send")}
  /\ UNCHANGED <<now, storage, inputCh, upsertCh, expirationCh, deleteCh, byID,
                 timers, mu, gen, mgr, cold, cbTasks, fetchTasks, upsertTasks,
                 deleteTasks, budget, obs, resp, proc, shut>>

\* delete(s.timers.byID, id)
FireDelete(f) ==
  /\ f \in fireTasks /\ f.pc = "del"
  /\ byID' = [byID EXCEPT ![f.id] = 0]
  /\ fireTasks' = (fireTasks \ {f}) \cup {Moved(f, "send")}
  /\ timers' = Collect(timers, byID', fireTasks')
  /\ UNCHANGED <<now, storage, inputCh, upsertCh, expirationCh, deleteCh, mu,
                 gen, mgr, cold, cbTasks, fetchTasks, upsertTasks, deleteTasks,
                 budget, obs, resp, proc, shut>>

\* s.deleteCh <- id, then s.timers.mu.Unlock(); the task ends
FireSend(f) ==
  /\ f \in fireTasks /\ f.pc = "send"
  /\ IF "deleteCh" \in closed
     THEN /\ proc' = SendOnClosed
          /\ UNCHANGED <<deleteCh, mu, fireTasks>>
     ELSE /\ HasRoom(deleteCh)
          /\ deleteCh' = Append(deleteCh, DeleteMsg(f.id, "timer", f.h))
          /\ mu' = Free
          /\ fireTasks' = fireTasks \ {f}
          /\ UNCHANGED proc
  /\ UNCHANGED <<now, storage, inputCh, upsertCh, expirationCh, byID, timers,
                 gen, mgr, cold, cbTasks, fetchTasks, upsertTasks, deleteTasks,
                 budget, obs, resp, shut>>

(* ------------------------------ cold start ----------------------------- *)
Orders(S) == {q \in [1..Cardinality(S) -> S] : \A a, b \in DOMAIN q : q[a] = q[b] => a = b}

\* SELECT id, last_seen_at FROM objects (no ORDER BY); Online is not a column
GetAll(st) ==
  {[k \in DOMAIN q |-> Object(q[k], st[q[k]], FALSE)] :
     q \in Orders({i \in Ids : st[i] # Absent})}

\* faulty variant: after a failed scan the reconciler goes on with the rows
ColdScanAnyway(ok) ==
  /\ cold.pc = "scan"
  /\ \E objs \in GetAll(storage) :
       cold' = [cold EXCEPT !.objs = objs, !.scanned = objs, !.err = ~ok,
                            !.pc = IF objs = <<>> THEN "done" ELSE "check"]
  /\ UNCHANGED <<now, storage, inputCh, upsertCh, expirationCh, deleteCh, byID,
                 timers, mu, gen, mgr, cbTasks, fetchTasks, upsertTasks,
                 deleteTasks, fireTasks, budget, obs, resp, proc, shut>>

\* objs, err := s.database.GetAll(ctx); on an error the reconciler returns
\* (err is a history field)
ColdScan(ok) ==
  /\ cold.pc = "scan"
  /\ IF ok
     THEN \E objs \in GetAll(storage) :
            cold' = [cold EXCEPT !.objs = objs, !.scanned = objs,
                                 !.pc = IF objs = <<>> THEN "done" ELSE "check"]
     ELSE cold' = [cold EXCEPT !.pc = "done", !.err = TRUE]
  /\ UNCHANGED <<now, storage, inputCh, upsertCh, expirationCh, deleteCh, byID,
                 timers, mu, gen, mgr, cbTasks, fetchTasks, upsertTasks,
                 deleteTasks, fireTasks, budget, obs, resp, proc, shut>>

\* faulty variant: a record exactly one retention old counts as stale
StaleAtBootInclusive(r) == r.lastSeenAt # NULL /\ now - r.lastSeenAt >= Retention

\* LastSeenAt != nil && time.Now().UTC().Sub(*LastSeenAt) > retention
StaleAtBoot(r) == r.lastSeenAt # NULL /\ now - r.lastSeenAt > Retention

ColdCheck ==
  /\ cold.pc = "check"
  /\ cold' = [cold EXCEPT !.pc = IF StaleAtBoot(Head(cold.objs))
                                 THEN "delete" ELSE "expiration",
                          !.routed = Append(@, [obj |-> Head(cold.objs), at |-> now,
                                                q |-> "none", item |-> 0])]
  /\ UNCHANGED <<now, storage, inputCh, upsertCh, expirationCh, deleteCh, byID,
                 timers, mu, gen, mgr, cbTasks, fetchTasks, upsertTasks,
                 deleteTasks, fireTasks, budget, obs, resp, proc, shut>>

\* routed (history): per record examined, the clock at the check, the queue
\* it went to and the item pushed
ColdNext(q, x) ==
  [cold EXCEPT !.objs = Tail(@),
               !.pc = IF Len(cold.objs) = 1 THEN "done" ELSE "check",
               !.routed[Len(cold.routed)].q = q,
               !.routed[Len(cold.routed)].item = x]

\* s.deleteCh <- objs[i].ID
ColdSendDelete ==
  /\ cold.pc = "delete"
  /\ IF "deleteCh" \in closed
     THEN /\ proc' = SendOnClosed
          /\ UNCHANGED <<deleteCh, cold>>
     ELSE /\ HasRoom(deleteCh)
          /\ deleteCh' = Append(deleteCh, DeleteMsg(Head(cold.objs).id, "cold", 0))
          /\ cold' = ColdNext("delete", deleteCh'[Len(deleteCh')].id)
          /\ UNCHANGED proc
  /\ UNCHANGED <<now, storage, inputCh, upsertCh, expirationCh, byID, timers,
                 mu, gen, mgr, cbTasks, fetchTasks, upsertTasks, deleteTasks,
                 fireTasks, budget, obs, resp, shut>>

\* s.expirationCh <- objs[i]
ColdSendExpiration ==
  /\ cold.pc = "expiration"
  /\ IF "expirationCh" \in closed
     THEN /\ proc' = SendOnClosed
          /\ UNCHANGED <<expirationCh, cold>>
     ELSE /\ HasRoom(expirationCh)
          /\ expirationCh' = Append(expirationCh, Head(cold.objs))
          /\ cold' = ColdNext("expiration", expirationCh'[Len(expirationCh')])
          /\ UNCHANGED proc
  /\ UNCHANGED <<now, storage, inputCh, upsertCh, deleteCh, byID, timers, mu,
                 gen, mgr, cbTasks, fetchTasks, upsertTasks, deleteTasks,
                 fireTasks, budget, obs, resp, shut>>

(* -------------------------------- clock -------------------------------- *)
\* a second passes; a due timer is fired by the runtime before the clock
\* moves on
Tick ==
  /\ now < MaxTime
  /\ \A h \in DOMAIN timers : ~(timers[h].active /\ timers[h].deadline <= now)
  /\ now' = now + 1
  /\ UNCHANGED <<storage, inputCh, upsertCh, expirationCh, deleteCh, byID,
                 timers, mu, gen, mgr, cold, cbTasks, fetchTasks, upsertTasks,
                 deleteTasks, fireTasks, budget, obs, resp, proc, shut>>

(* ------------------------------ shutdown ------------------------------- *)
\* the context handed to Run is cancelled (main's deferred cancel)
Cancel ==
  /\ ctx = "live"
  /\ ctx' = "done"
  /\ UNCHANGED <<now, storage, inputCh, upsertCh, expirationCh, deleteCh, byID,
                 timers, mu, gen, mgr, cold, cbTasks, fetchTasks, upsertTasks,
                 deleteTasks, fireTasks, budget, obs, resp, proc, closed, sup,
                 workers>>

\* main returns after its deferred calls: the process is gone
Exit ==
  /\ ctx = "done"
  /\ proc' = Exited
  /\ UNCHANGED <<now, storage, inputCh, upsertCh, expirationCh, deleteCh, byID,
                 timers, mu, gen, mgr, cold, cbTasks, fetchTasks, upsertTasks,
                 deleteTasks, fireTasks, budget, obs, resp, shut>>

\* case <-ctx.Done(): return, in the select of a long-lived worker
WorkerReturn(w) ==
  /\ ctx = "done"
  /\ w \in workers
  /\ w = "manager" => mgr.pc = "idle"
  /\ workers' = workers \ {w}
  /\ UNCHANGED <<now, storage, inputCh, upsertCh, expirationCh, deleteCh, byID,
                 timers, mu, gen, mgr, cold, cbTasks, fetchTasks, upsertTasks,
                 deleteTasks, fireTasks, budget, obs, resp, proc, ctx, closed,
                 sup>>

\* close(): the four close statements in their order
CloseOrder == <<"expirationCh", "inputCh", "deleteCh", "upsertCh">>

\* Run's loop: for { select { case <-ctx.Done(): s.close() } }. One step is
\* one close statement; after the fourth the loop is back at its select,
\* whose only case is still ready.
SupClose ==
  /\ ctx = "done"
  /\ LET ch == CloseOrder[sup + 1]
     IN IF ch \in closed
        THEN /\ proc' = CloseOfClosed
             /\ UNCHANGED <<closed, sup>>
        ELSE /\ closed' = closed \cup {ch}
             /\ sup' = (sup + 1) % Len(CloseOrder)
             /\ UNCHANGED proc
  /\ UNCHANGED <<now, storage, inputCh, upsertCh, expirationCh, deleteCh, byID,
                 timers, mu, gen, mgr, cold, cbTasks, fetchTasks, upsertTasks,
                 deleteTasks, fireTasks, budget, obs, resp, ctx, workers>>

(* ----------------------------- specification --------------------------- *)
\* A task that has reached its return, and a response on its way to the
\* caller, leave before anything else runs: neither touches anything
\* shared, so every interleaving is equivalent to one in which they come
\* first.
Quiet ==
  /\ \A t \in BagToSet(fetchTasks) : t.pc # "ret"
  /\ resp = NoResp

Next ==
  \/ Up /\ Quiet /\ \E b \in Bodies : Callback(b)
  \/ Up /\ Quiet /\ \E p \in Payloads : CallbackPush(p)
  \/ Up /\ Quiet /\ RetrieveObjects
  \/ Up /\ Quiet /\ \E t \in BagToSet(fetchTasks) : FetchFail(t)
  \/ Up /\ Quiet /\ \E t \in BagToSet(fetchTasks), rid \in Ids, on \in BOOLEAN, ce \in BOOLEAN :
         FetchDecode(t, rid, on, ce)
  \/ Up /\ Quiet /\ \E t \in BagToSet(fetchTasks) : FetchSendUpsert(t)
  \/ Up /\ Quiet /\ \E t \in BagToSet(fetchTasks) : FetchSendExpiration(t)
  \/ Up /\ Quiet /\ \E t \in BagToSet(fetchTasks) : FetchSendDelete(t)
  \/ Up /\ \E t \in BagToSet(fetchTasks) : FetchReturn(t)
  \/ Up /\ Respond
  \/ Up /\ Quiet /\ HandleUpsert
  \/ Up /\ Quiet /\ \E o \in BagToSet(upsertTasks), ok \in BOOLEAN : UpsertApply(o, ok)
  \/ Up /\ Quiet /\ HandleDelete
  \/ Up /\ Quiet /\ \E d \in BagToSet(deleteTasks), ok \in BOOLEAN : DeleteApply(d, ok)
  \/ Up /\ Quiet /\ MgrReceive
  \/ Up /\ Quiet /\ MgrLock
  \/ Up /\ Quiet /\ MgrCreate
  \/ Up /\ Quiet /\ MgrRefresh
  \/ Up /\ Quiet /\ MgrDrain
  \/ Up /\ Quiet /\ \E h \in DOMAIN timers : TimerExpire(h)
  \/ Up /\ Quiet /\ \E f \in fireTasks : FireLookup(f)
  \/ Up /\ Quiet /\ \E f \in fireTasks : FireReceive(f)
  \/ Up /\ Quiet /\ \E f \in fireTasks : FireLock(f)
  \/ Up /\ Quiet /\ \E f \in fireTasks : FireDelete(f)
  \/ Up /\ Quiet /\ \E f \in fireTasks : FireSend(f)
  \/ Up /\ Quiet /\ \E ok \in BOOLEAN : ColdScan(ok)
  \/ Up /\ Quiet /\ ColdCheck
  \/ Up /\ Quiet /\ ColdSendDelete
  \/ Up /\ Quiet /\ ColdSendExpiration
  \/ Up /\ Quiet /\ Tick

Spec == Init /\ [][Next]_vars

(* ------------- the pipeline alone, with a storage that works ----------- *)
\* the state after cold-start has run on an empty table
InitLive ==
  /\ now = BootTime
  /\ storage = [i \in Ids |-> Absent]
  /\ inputCh = <<>> /\ upsertCh = <<>> /\ expirationCh = <<>> /\ deleteCh = <<>>
  /\ byID = [i \in Keys |-> 0]
  /\ timers = [h \in {} |-> 0]
  /\ mu = Free
  /\ gen = [i \in Keys |-> 0]
  /\ mgr = [pc |-> "idle", obj |-> ZeroObject]
  /\ cold = [pc |-> "done", objs |-> <<>>, scanned |-> <<>>, routed |-> <<>>,
             err |-> FALSE]
  /\ cbTasks = EmptyBag /\ fetchTasks = EmptyBag
  /\ upsertTasks = EmptyBag /\ deleteTasks = EmptyBag
  /\ fireTasks = {}
  /\ budget = MaxEvents
  /\ obs = [i \in Ids |-> NoObs]
  /\ resp = NoResp
  /\ proc = "up"
  /\ ctx = "live" /\ closed = {} /\ sup = 0 /\ workers = AllWorkers

\* the steps of the program's own tasks; every runnable task is eventually run
Workers ==
  \/ Up /\ Quiet /\ \E p \in Payloads : CallbackPush(p)
  \/ Up /\ Quiet /\ RetrieveObjects
  \/ Up /\ Quiet /\ \E t \in BagToSet(fetchTasks) : FetchFail(t)
  \/ Up /\ Quiet /\ \E t \in BagToSet(fetchTasks), rid \in Ids, on \in BOOLEAN, ce \in BOOLEAN :
         FetchDecode(t, rid, on, ce)
  \/ Up /\ Quiet /\ \E t \in BagToSet(fetchTasks) : FetchSendUpsert(t)
  \/ Up /\ Quiet /\ \E t \in BagToSet(fetchTasks) : FetchSendExpiration(t)
  \/ Up /\ Quiet /\ \E t \in BagToSet(fetchTasks) : FetchSendDelete(t)
  \/ Up /\ \E t \in BagToSet(fetchTasks) : FetchReturn(t)
  \/ Up /\ Respond
  \/ Up /\ Quiet /\ HandleUpsert
  \/ Up /\ Quiet /\ \E o \in BagToSet(upsertTasks) : UpsertApply(o, TRUE)
  \/ Up /\ Quiet /\ HandleDelete
  \/ Up /\ Quiet /\ \E d \in BagToSet(deleteTasks) : DeleteApply(d, TRUE)
  \/ Up /\ Quiet /\ MgrReceive
  \/ Up /\ Quiet /\ MgrLock
  \/ Up /\ Quiet /\ MgrCreate
  \/ Up /\ Quiet /\ MgrRefresh
  \/ Up /\ Quiet /\ MgrDrain
  \/ Up /\ Quiet /\ \E f \in fireTasks : FireLookup(f)
  \/ Up /\ Quiet /\ \E f \in fireTasks : FireReceive(f)
  \/ Up /\ Quiet /\ \E f \in fireTasks : FireLock(f)
  \/ Up /\ Quiet /\ \E f \in fireTasks : FireDelete(f)
  \/ Up /\ Quiet /\ \E f \in fireTasks : FireSend(f)

NextLive ==
  \/ Up /\ Quiet /\ \E b \in Bodies : Callback(b)
  \/ Up /\ Quiet /\ \E h \in DOMAIN timers : TimerExpire(h)
  \/ Up /\ Quiet /\ Tick
  \/ Workers

\* no fairness for the clock, the timers or the callbacks: what SpecLive
\* promises does not wait for any of them
SpecLive == InitLive /\ [][NextLive]_vars /\ WF_vars(Workers)

(* ------------- the queues' traffic within one clock second ------------- *)
\* more callbacks than a queue holds, on an empty table after cold-start
InitFlow ==
  /\ now = BootTime
  /\ storage = [i \in Ids |-> Absent]
  /\ inputCh = <<>> /\ upsertCh = <<>> /\ expirationCh = <<>> /\ deleteCh = <<>>
  /\ byID = [i \in Keys |-> 0]
  /\ timers = [h \in {} |-> 0]
  /\ mu = Free
  /\ gen = [i \in Keys |-> 0]
  /\ mgr = [pc |-> "idle", obj |-> ZeroObject]
  /\ cold = [pc |-> "done", objs |-> <<>>, scanned |-> <<>>, routed |-> <<>>,
             err |-> FALSE]
  /\ cbTasks = EmptyBag /\ fetchTasks = EmptyBag
  /\ upsertTasks = EmptyBag /\ deleteTasks = EmptyBag
  /\ fireTasks = {}
  /\ budget = MaxFlowEvents
  /\ obs = [i \in Ids |-> NoObs]
  /\ resp = NoResp
  /\ proc = "up"
  /\ ctx = "live" /\ closed = {} /\ sup = 0 /\ workers = AllWorkers

\* the steps of the program's tasks that need no timer to expire
Traffic ==
  \/ Up /\ Quiet /\ \E p \in Payloads : CallbackPush(p)
  \/ Up /\ Quiet /\ RetrieveObjects
  \/ Up /\ Quiet /\ \E t \in BagToSet(fetchTasks) : FetchFail(t)
  \/ Up /\ Quiet /\ \E t \in BagToSet(fetchTasks), rid \in Ids, on \in BOOLEAN, ce \in BOOLEAN :
         FetchDecode(t, rid, on, ce)
  \/ Up /\ Quiet /\ \E t \in BagToSet(fetchTasks) : FetchSendUpsert(t)
  \/ Up /\ Quiet /\ \E t \in BagToSet(fetchTasks) : FetchSendExpiration(t)
  \/ Up /\ Quiet /\ \E t \in BagToSet(fetchTasks) : FetchSendDelete(t)
  \/ Up /\ \E t \in BagToSet(fetchTasks) : FetchReturn(t)
  \/ Up /\ Respond
  \/ Up /\ Quiet /\ HandleUpsert
  \/ Up /\ Quiet /\ \E o \in BagToSet(upsertTasks), ok \in BOOLEAN : UpsertApply(o, ok)
  \/ Up /\ Quiet /\ HandleDelete
  \/ Up /\ Quiet /\ \E d \in BagToSet(deleteTasks), ok \in BOOLEAN : DeleteApply(d, ok)
  \/ Up /\ Quiet /\ MgrReceive
  \/ Up /\ Quiet /\ MgrLock
  \/ Up /\ Quiet /\ MgrCreate
  \/ Up /\ Quiet /\ MgrRefresh
  \/ Up /\ Quiet /\ \E f \in fireTasks : FireLookup(f)

NextFlow ==
  \/ Up /\ Quiet /\ \E b \in Bodies : Callback(b)
  \/ Traffic

\* every runnable task is eventually run; no fairness for the callbacks
SpecFlow == InitFlow /\ [][NextFlow]_vars /\ WF_vars(Traffic)

(* -------------------- the program with its shutdown -------------------- *)
\* the traffic of one clock second, and the cancellation with what follows
NextStop ==
  \/ NextFlow
  \/ Up /\ Quiet /\ Cancel
  \/ Up /\ Quiet /\ Exit
  \/ Up /\ Quiet /\ \E w \in AllWorkers : WorkerReturn(w)
  \/ Up /\ Quiet /\ SupClose

SpecStop == InitLive /\ [][NextStop]_vars

(* ============================== claims ================================= *)
PendingDeletes == {deleteCh[k] : k \in DOMAIN deleteCh} \cup BagToSet(deleteTasks)
InFlight(m) ==
  Cardinality({k \in DOMAIN deleteCh : deleteCh[k] = m}) + CopiesIn(m, deleteTasks)

\* C1: for every identifier there is at most one timer, it is the one the
\* registry holds, and at most one firing task exists for the identifier
\* (waiting on the timer or past it), whatever first events, refreshes,
\* firings and re-creations have happened.
C1_OneTimerPerId ==
  \A i \in Ids :
    /\ Cardinality({h \in DOMAIN timers : h[1] = i}) <= 1
    /\ \A h \in DOMAIN timers : h[1] = i => byID[i] = h[2]
    /\ Cardinality({f \in fireTasks : f.id = i}) <= 1
    /\ Cardinality({f \in fireTasks : f.id = i /\ f.pc \in {"lookup", "wait"}}) <= 1

\* a timer re-created after a firing, with its firing task waiting on it
C1_Witness ==
  \E i \in Ids : /\ gen[i] = 2 /\ byID[i] = 2
                 /\ \E f \in fireTasks : f.id = i /\ f.pc = "wait" /\ f.h = 2

\* C2: when the manager refreshes an existing entry and Stop reports the
\* timer already fired, the drain finds the fire signal: the manager is never
\* at <-timer.C with the lock held and an empty channel that nothing will fill.
C2_RefreshCompletes ==
  mgr.pc = "drain" => timers[<<mgr.obj.id, byID[mgr.obj.id]>>].c = 1

\* C10: a firing task removes its entry and enqueues its delete while holding
\* the registry lock, the removal first; a delete that comes from a firing is
\* never pending while that timer's entry is still in the registry, and a
\* firing leaves at most one delete.
C10_RemoveThenEnqueue ==
  /\ \A f \in fireTasks :
       /\ f.pc \in {"del", "send"} => mu = FireHolds(f)
       /\ f.pc = "send" => byID[f.id] # f.h
  /\ \A m \in PendingDeletes :
       m.src = "timer" => byID[m.id] # m.gen /\ InFlight(m) = 1

\* a delete from a firing is on the delete queue
C10_Witness ==
  \E k \in DOMAIN deleteCh : deleteCh[k].src = "timer" /\ byID[deleteCh[k].id] = 0

\* C3: once an online observation of i stamped T is in storage and is still
\* the latest observation of i, no step removes i from storage before T plus
\* the retention, whatever older timer or earlier delete is still in flight.
C3_RetainedForRetention ==
  [][\A i \in Ids :
       (/\ obs[i].kind = "online"
        /\ storage[i] = obs[i].at
        /\ now < obs[i].at + Retention)
       => storage'[i] # Absent]_vars

\* C4: while i has only been observed online, each observation less than a
\* retention after the previous one and the latest less than a retention
\* ago, and no row of i was handed to cold-start, no step removes a stored i.
ColdSaw(i) == \E k \in DOMAIN cold.scanned : cold.scanned[k].id = i
C4_KeptWhileObserved ==
  [][\A i \in Ids :
       (/\ obs[i].kind = "online" /\ obs[i].chain
        /\ now - obs[i].at < Retention
        /\ ~ColdSaw(i)
        /\ storage[i] # Absent)
       => storage'[i] # Absent]_vars

\* C6: when the delete of an offline observation of i removes i from
\* storage, and that observation is still the latest of i and found a timer
\* registered for i, the registry no longer holds that timer.
C6_NoTimerAfterOffline ==
  [][\A d \in BagToSet(deleteTasks) :
       (/\ d.src = "offline"
        /\ deleteTasks' = Take(deleteTasks, d)
        /\ storage[d.id] # Absent /\ storage'[d.id] = Absent
        /\ obs[d.id].kind = "offline" /\ obs[d.id].timer # 0)
       => byID'[d.id] # obs[d.id].timer]_vars

\* C7: a fetch task that decoded a response returns having enqueued, for an
\* online record, the record stamped with the clock of the decode once on
\* the upsert queue and then once on the expiration queue and nothing on the
\* delete queue; for an offline record, its identifier once on the delete
\* queue and nothing else. Before it returns it has enqueued a prefix of that.
Queues(t) == [k \in DOMAIN t.sent |-> t.sent[k][1]]
C7_FetchRouting ==
  \A t \in BagToSet(fetchTasks) :
    t.seen # NULL =>
      IF t.info.online
      THEN /\ t.info.lastSeenAt = t.seen
           /\ Queues(t) = CASE t.pc = "upsert" -> <<>>
                            [] t.pc = "expiration" -> <<"upsert">>
                            [] OTHER -> <<"upsert", "expiration">>
           /\ \A k \in DOMAIN t.sent : t.sent[k][2] = t.info
           /\ t.pc \in {"upsert", "expiration", "ret"}
      ELSE /\ Queues(t) = IF t.pc = "delete" THEN <<>> ELSE <<"delete">>
           /\ \A k \in DOMAIN t.sent : t.sent[k][2] = t.info.id
           /\ t.pc \in {"delete", "ret"}

\* a task returns after an online response, stamped after the boot second
C7_Witness ==
  \E t \in BagToSet(fetchTasks) :
    t.pc = "ret" /\ t.info.online /\ t.info.lastSeenAt > BootTime

C9_ColdTimerResidual ==
  [][(/\ mgr.pc = "locked" /\ mgr'.pc = "idle"
      /\ byID[mgr.obj.id] = 0
      /\ ~mgr.obj.online /\ mgr.obj.lastSeenAt # NULL)
     => timers'[<<mgr.obj.id, gen'[mgr.obj.id]>>].deadline
          = mgr.obj.lastSeenAt + Retention]_vars

\* C5: whenever the latest observation of i is an offline one, i is eventually
\* absent from storage (or is observed again), with only the pipeline's tasks
\* scheduled fairly and a storage that works: no timer and no tick is needed,
\* and an upsert of i still in flight does not prevent it.
C5_OfflineEvicted ==
  \A i \in Ids :
    (obs[i].kind = "offline") ~> (storage[i] = Absent \/ obs[i].kind # "offline")

\* C11: whenever the deleter takes an identifier from the delete queue, the
\* registry holds no entry for that identifier, whoever produced the delete.
C11_NoLiveEntryAtDelete ==
  [][(/\ deleteCh # <<>> /\ deleteCh' = Tail(deleteCh)
      /\ deleteTasks' = Put(deleteTasks, Head(deleteCh)))
     => byID[Head(deleteCh).id] = 0]_vars

\* C12: every access to the registry map is made under the registry lock: no
\* firing task is at its lookup of the map (a read made without the lock)
\* while another task holds the lock and is at a write of the map.
C12_RegistryUnderLock ==
  \A f \in fireTasks : f.pc = "lookup" => ~Racing(f)

\* C13: no task performs a send on a queue the supervisor has closed (the
\* send would end the process with a panic).
C13_NoSendOnClosed == proc # SendOnClosed

\* C14: the supervisor applies close to each queue once: close is never
\* applied to a queue that is already closed.
C14_ClosedOnce == proc # CloseOfClosed

\* C15: a callback is answered 400 exactly when its body does not decode,
\* and then the step changes nothing but the response: no identifier, not
\* even one decoded before the error, is handed to a background task or
\* enqueued, and storage and the registry are as before; a body that decodes
\* is answered 200 and its identifiers are handed to one background task.
C15_BadCallbackNoEffect ==
  [][(resp = NoResp /\ resp' # NoResp) =>
       /\ resp'.code = IF resp'.body.ok THEN 200 ELSE 400
       /\ resp'.code = 400 =>
            UNCHANGED <<cbTasks, inputCh, upsertCh, expirationCh, deleteCh,
                        fetchTasks, upsertTasks, deleteTasks, fireTasks,
                        storage, byID, timers, mgr>>
       /\ resp'.code = 200 =>
            /\ cbTasks' = Put(cbTasks, resp'.body.ids)
            /\ UNCHANGED <<inputCh, storage, byID, timers>>]_vars

\* a body that fails to decode after an identifier was decoded gets its 400
C15_Witness == resp.code = 400 /\ resp.body.ids # <<>>

\* C16: a fetch task whose fetch failed (request, transport or decode
\* failure, or an error closing the body) has enqueued nothing.
FetchFailed(t) == (t.pc = "ret" /\ t.seen = NULL) \/ t.closeErr
Count(q, i) == Cardinality({k \in DOMAIN q : q[k] = i})
RECURSIVE Held(_, _)
Held(S, i) ==
  IF S = {} THEN 0
  ELSE LET p == CHOOSE x \in S : TRUE
       IN CopiesIn(p, cbTasks) * Count(p, i) + Held(S \ {p}, i)
Awaiting(i) == Held(BagToSet(cbTasks), i) + Count(inputCh, i)

\* C17: without a cancellation, the occurrences of an identifier accepted
\* with a callback are neither lost nor duplicated on their way to the
\* fetcher (a step adds the occurrences of an accepted body, or takes one
\* away by starting one fetch task for the identifier, or leaves them), and
\* every accepted occurrence is eventually taken, a full input queue only
\* delaying it.
C17_AcceptedFetched ==
  /\ [][\A i \in Ids :
          \/ Awaiting(i)' = Awaiting(i)
          \/ /\ resp = NoResp /\ resp'.code = 200
             /\ Awaiting(i)' = Awaiting(i) + Count(resp'.body.ids, i)
          \/ /\ Awaiting(i)' = Awaiting(i) - 1
             /\ inputCh # <<>> /\ Head(inputCh) = i
             /\ fetchTasks' = Put(fetchTasks, FetchTask(i))]_vars
  /\ \A i \in Ids : (Awaiting(i) > 0) ~> (Awaiting(i) = 0)

\* one step of a queue: nothing, an element appended at the back while the
\* queue is not full, or the front element taken
QueueStep(q, qn) ==
  /\ Len(qn) <= MaxObjectsPerRequest
  /\ \/ qn = q
     \/ Len(q) < MaxObjectsPerRequest /\ qn # <<>> /\ qn = Append(q, qn[Len(qn)])
     \/ q # <<>> /\ qn = Tail(q)
\* the tasks waiting to send stay as they are
Waiting(S, tasks, tasksn) ==
  \A t \in S : CopiesIn(t, tasksn) >= CopiesIn(t, tasks)

\* C18: no queue ever holds more than MaxObjectsPerRequest elements; every
\* step leaves a queue as it is, appends one element at its back, or takes
\* its front element, so nothing in a queue is dropped, overwritten or
\* reordered; and while a queue is full the tasks that want to send on it
\* stay where they are with what they hold.
C18_BoundedFifo ==
  [][/\ QueueStep(inputCh, inputCh') /\ QueueStep(upsertCh, upsertCh')
     /\ QueueStep(expirationCh, expirationCh') /\ QueueStep(deleteCh, deleteCh')
     /\ Len(inputCh) = MaxObjectsPerRequest =>
          Waiting(BagToSet(cbTasks), cbTasks, cbTasks')
     /\ Len(upsertCh) = MaxObjectsPerRequest =>
          Waiting({t \in BagToSet(fetchTasks) : t.pc = "upsert"}, fetchTasks, fetchTasks')
     /\ Len(expirationCh) = MaxObjectsPerRequest =>
          Waiting({t \in BagToSet(fetchTasks) : t.pc = "expiration"}, fetchTasks, fetchTasks')
     /\ Len(deleteCh) = MaxObjectsPerRequest =>
          Waiting({t \in BagToSet(fetchTasks) : t.pc = "delete"}, fetchTasks, fetchTasks')]_vars

\* a queue is full of two different elements and a producer waits to send
C18_Witness ==
  \/ /\ Len(inputCh) = MaxObjectsPerRequest /\ inputCh[1] # inputCh[Len(inputCh)]
     /\ cbTasks # EmptyBag
  \/ /\ Len(deleteCh) = MaxObjectsPerRequest /\ deleteCh[1] # deleteCh[Len(deleteCh)]
     /\ \E t \in BagToSet(fetchTasks) : t.pc = "delete"

\* all queues are empty and no callback, fetch, upsert or delete task is left
Drained ==
  /\ inputCh = <<>> /\ upsertCh = <<>> /\ expirationCh = <<>> /\ deleteCh = <<>>
  /\ cbTasks = EmptyBag /\ fetchTasks = EmptyBag
  /\ upsertTasks = EmptyBag /\ deleteTasks = EmptyBag
\* no timer of i has expired so far
NoExpiry(i) ==
  \/ gen[i] = 0
  \/ gen[i] = 1 /\ byID[i] = 1 /\ timers[<<i, 1>>].active

C20_FailedScanNoSeed ==
  cold.err =>
    /\ cold.pc = "done" /\ cold.scanned = <<>> /\ cold.routed = <<>>
    /\ \A m \in PendingDeletes : m.src # "cold"
    /\ \A k \in DOMAIN expirationCh : expirationCh[k].online
    /\ mgr.pc # "idle" => mgr.obj.online
    /\ \A i \in Ids : byID[i] # 0 => obs[i].n >= 1

\* the scan failed on a table with a row: the row has no timer, and an
\* identifier that came with a callback is fetched, stored and timed
C20_Witness ==
  /\ cold.err
  /\ \E i, j \in Ids :
       /\ storage[i] # Absent /\ obs[i].n = 0 /\ byID[i] = 0
       /\ obs[j].kind = "online" /\ storage[j] = obs[j].at /\ byID[j] # 0

\* the only observation of i was an online one, its timer has fired and the
\* firing task has taken the entry out of the registry
Expired(i) ==
  /\ obs[i].n = 1 /\ obs[i].kind = "online"
  /\ gen[i] = 1 /\ byID[i] = 0

\* C21: when i was observed online once and never again, then once its timer
\* has fired i is eventually absent from storage and stays absent, with the
\* pipeline's tasks scheduled fairly and a storage that works, as long as the
\* process is up: the upsert of the observation does not land after the
\* delete of the expiry.
C21_ExpiredStaysAbsent ==
  \A i \in Ids :
    [](Expired(i) => <>[](storage[i] = Absent \/ obs[i].n # 1 \/ ~Up))

\* the records for i that have not reached the manager yet
ExpirationPending(i) ==
  \/ \E k \in DOMAIN expirationCh : expirationCh[k].id = i
  \/ \E t \in BagToSet(fetchTasks) :
       t.pc \in {"upsert", "expiration"} /\ t.info.id = i
  \/ cold.pc # "done"
  \/ mgr.pc # "idle"

\* C22: every step that completes a refresh of i (the manager, holding the
\* lock with an entry for i, goes back to its receive) leaves the registry
\* with the same entry and the same single timer for i, armed and due one
\* full retention after the step, whatever last_seen_at the record carries.
\* And no step leaves a registered timer stopped: a timer of the registry
\* that is not armed has expired, its signal waiting on C or taken by its own
\* firing task.
C22_RefreshRearms ==
  [][/\ \A i \in Ids :
          (/\ mgr.pc \in {"locked", "drain"} /\ mgr.obj.id = i
           /\ byID[i] # 0
           /\ mgr'.pc = "idle")
          => /\ byID'[i] = byID[i] /\ gen'[i] = gen[i]
             /\ {h \in DOMAIN timers' : h[1] = i} = {<<i, byID[i]>>}
             /\ timers'[<<i, byID[i]>>] =
                  [active |-> TRUE, deadline |-> now + Retention, c |-> 0]
             /\ mu' = Free
     /\ \A i \in Ids :
          byID'[i] # 0 =>
            LET t == timers'[<<i, byID'[i]>>]
            IN \/ t.active
               \/ t.c = 1
               \/ \E f \in fireTasks' :
                    f.id = i /\ f.h = byID'[i] /\ f.pc \in {"lock", "del"}]_vars

\* a cold-start record of i one retention old and the record of the only
\* observation of i, made in an earlier second, have both been taken by the
\* manager; one timer was created, so one of the two was a refresh, and the
\* timer is due a full retention from now
C22_Witness ==
  \E i \in Ids :
    /\ \E k \in DOMAIN cold.routed :
         /\ cold.routed[k].obj = Object(i, BootTime - Retention, FALSE)
         /\ cold.routed[k].q = "expiration"
    /\ obs[i].n = 1 /\ obs[i].kind = "online" /\ obs[i].at < now
    /\ ~ExpirationPending(i)
    /\ gen[i] = 1 /\ byID[i] = 1
    /\ timers[<<i, 1>>] = [active |-> TRUE, deadline |-> now + Retention, c |-> 0]

(* ------------- the pipeline with more records than a refresh ----------- *)
\* the program's tasks with a tester that answers online and closes its
\* bodies without an error, and a storage that works
WorkersBusy ==
  \/ Up /\ Quiet /\ \E p \in Payloads : CallbackPush(p)
  \/ Up /\ Quiet /\ RetrieveObjects
  \/ Up /\ Quiet /\ \E t \in BagToSet(fetchTasks), rid \in Ids :
         FetchDecode(t, rid, TRUE, FALSE)
  \/ Up /\ Quiet /\ \E t \in BagToSet(fetchTasks) : FetchSendUpsert(t)
  \/ Up /\ Quiet /\ \E t \in BagToSet(fetchTasks) : FetchSendExpiration(t)
  \/ Up /\ \E t \in BagToSet(fetchTasks) : FetchReturn(t)
  \/ Up /\ Respond
  \/ Up /\ Quiet /\ HandleUpsert
  \/ Up /\ Quiet /\ \E o \in BagToSet(upsertTasks) : UpsertApply(o, TRUE)
  \/ Up /\ Quiet /\ HandleDelete
  \/ Up /\ Quiet /\ \E d \in BagToSet(deleteTasks) : DeleteApply(d, TRUE)
  \/ Up /\ Quiet /\ MgrReceive
  \/ Up /\ Quiet /\ MgrLock
  \/ Up /\ Quiet /\ MgrCreate
  \/ Up /\ Quiet /\ MgrRefresh
  \/ Up /\ Quiet /\ MgrDrain
  \/ Up /\ Quiet /\ \E f \in fireTasks : FireLookup(f)
  \/ Up /\ Quiet /\ \E f \in fireTasks : FireReceive(f)
  \/ Up /\ Quiet /\ \E f \in fireTasks : FireLock(f)
  \/ Up /\ Quiet /\ \E f \in fireTasks : FireDelete(f)
  \/ Up /\ Quiet /\ \E f \in fireTasks : FireSend(f)

\* the callbacks of InitFlow, the clock and the timers
NextBusy ==
  \/ Up /\ Quiet /\ \E b \in Bodies : Callback(b)
  \/ Up /\ Quiet /\ \E h \in DOMAIN timers : TimerExpire(h)
  \/ Up /\ Quiet /\ Tick
  \/ WorkersBusy

SpecBusy == InitFlow /\ [][NextBusy]_vars

\* a queue holds an item (a producer that waits on a full queue is a case of it)
Busy ==
  \/ inputCh # <<>> \/ upsertCh # <<>>
  \/ expirationCh # <<>> \/ deleteCh # <<>>

\* C23: before cancellation the pipeline does not deadlock: while the process
\* is up and a queue holds an item, some task of the program can take a step.
C23_NoDeadlock ==
  (Up /\ ctx = "live" /\ Busy) => ENABLED Workers

\* C24: every item a worker processes was enqueued by a producer: the
\* manager never works on the zero record a closed queue delivers, and no
\* registry entry, timer or firing task is ever made for identifier 0, which
\* no callback, tester response, expiry or cold-start scan produces.
C24_NoZeroWork ==
  /\ mgr.pc # "idle" => mgr.obj.id \in Ids
  /\ byID[0] = 0 /\ gen[0] = 0
  /\ \A h \in DOMAIN timers : h[1] \in Ids
  /\ \A f \in fireTasks : f.id \in Ids

====
